---- MODULE Spec2Model ----
(***************************************************************************)
(* SingleLinkedList<Type> (single-linked-list.h): a sentinel head node     *)
(* followed by a chain of heap nodes, a redundant element count, forward   *)
(* iterators that are bare node pointers.  The model keeps the heap        *)
(* explicitly (addresses, value and next_node of every node, the set of    *)
(* live allocations), so that sharing, leaks and releases are observable.  *)
(***************************************************************************)
EXTENDS Integers, Sequences, FiniteSets, TLC

(* ---------------------------- bounds ----------------------------------- *)
\* number of heap addresses available to operator new
MaxNodes == 6
\* element values are 1..MaxVal
MaxVal == 2
\* number of named list objects of the program (storage slots)
NumLists == 2
\* PushFront, InsertAfter and the initializer-list constructor are called
\* only while the list stays within cap elements: MaxLen when the program
\* has several lists, MaxLenOne when it has one
MaxLen == 2
MaxLenOne == 3
\* an allocation failure is injected into the initializer-list constructor
\* only while it leaves at most MaxLeaked nodes behind
MaxLeaked == 1
\* number of PushFront/PopFront calls followed in the push/pop specification
MaxCalls == 5

(* ---------------------------- the heap --------------------------------- *)
\* Node* values: NULL, the address of a heap node, or the address of the
\* sentinel head_ of a list object (written as a negative number)
NULL == 0
Nodes == 1..MaxNodes
Values == 1..MaxVal
\* content of a released node's value field
Garbage == 0

Lists == 1..NumLists
\* the local objects of the copy constructor and of operator=
Tmp1 == NumLists + 1
Tmp == NumLists + 2
TmpRhs == NumLists + 3
Slots == 1..(NumLists + 3)

VARIABLES
    head_,      \* head_[c]: head_.next_node of list object c
    size_,      \* size_[c]: size_ of list object c
    value,      \* value[n]: Node::value of heap node n
    next_node,  \* next_node[n]: Node::next_node of heap node n
    allocated,  \* heap nodes obtained from new and not yet deleted
    alive,      \* list objects whose lifetime has begun and not ended
    last,       \* the last call: operation, arguments, outcome, state before it
    hist,       \* the calls made so far on list 1 (push/pop specification)
    cap,        \* the length the caller keeps every list within
    iter        \* an iterator the caller keeps: its node_, and the value it
                \* referred to when it was obtained (iterator specification)

vars == <<head_, size_, value, next_node, allocated, alive, last, hist, cap,
          iter>>

\* &head_ of list object c
HeadOf(c) == 0 - c
IsHead(p) == p < 0

(* ------------------------ the running call ----------------------------- *)
\* The memory as one record, threaded through the statements of a call.
\*   released: the nodes deleted so far by the call, in order
\*   nalloc:   the number of new-expressions evaluated so far by the call
\*   failAt:   the new-expression of the call that throws std::bad_alloc
\*             (0: none does, unless the heap is exhausted)
\*   thrown:   an exception is propagating
\*   ret:      the returned iterator (a Node*)
Mem(failAt) ==
    [head |-> head_, size |-> size_, value |-> value, next |-> next_node,
     allocated |-> allocated, released |-> <<>>, nalloc |-> 0,
     failAt |-> failAt, thrown |-> FALSE, ret |-> NULL]

\* p->next_node, where p is a heap node or a sentinel
NextOf(m, p) == IF IsHead(p) THEN m.head[0 - p] ELSE m.next[p]

\* the free address the allocator hands out: the lowest one (which one it is
\* cannot matter, see Renaming)
PickFree(m) ==
    LET free == Nodes \ m.allocated
    IN  CHOOSE n \in free : \A k \in free : n <= k

\* new Node(val, next): the node is in m.ret on success; throws when the heap
\* is exhausted or when this is the new-expression chosen to fail
NewNode(m, val, next) ==
    IF m.nalloc + 1 = m.failAt \/ Nodes \ m.allocated = {}
    THEN [m EXCEPT !.thrown = TRUE, !.nalloc = @ + 1]
    ELSE LET n == PickFree(m)
         IN  [m EXCEPT !.allocated = @ \cup {n}, !.value[n] = val,
                       !.next[n] = next, !.nalloc = @ + 1, !.ret = n]

\* delete p
DeleteNode(m, p) ==
    [m EXCEPT !.allocated = @ \ {p}, !.value[p] = Garbage, !.next[p] = NULL,
              !.released = Append(@, p)]

(* --------------------- member functions -------------------------------- *)
\* before_begin(), cbefore_begin()
before_begin(c) == HeadOf(c)
\* begin(), cbegin()
begin(m, c) == m.head[c]
\* end(), cend()
end == NULL

\* PushFront without ++size_
PushFront_NoCount(m, c, v) ==
    LET a == NewNode(m, v, m.head[c])
    IN  IF a.thrown THEN a ELSE [a EXCEPT !.head[c] = a.ret]

\* PushFront with new Node(value, nullptr)
PushFront_DropTail(m, c, v) ==
    LET a == NewNode(m, v, NULL)
    IN  IF a.thrown THEN a
        ELSE [a EXCEPT !.head[c] = a.ret, !.size[c] = @ + 1]

\* PushFront that, on a non-empty list, puts the new node second with the
\* old first value and writes the new value into the first node
PushFront_InPlace(m, c, v) ==
    IF m.head[c] = NULL
    THEN LET a == NewNode(m, v, m.head[c])
         IN  IF a.thrown THEN a
             ELSE [a EXCEPT !.head[c] = a.ret, !.size[c] = @ + 1]
    ELSE LET first == m.head[c]
             a == NewNode(m, m.value[first], m.next[first])
         IN  IF a.thrown THEN a
             ELSE [a EXCEPT !.value[first] = v, !.next[first] = a.ret,
                            !.size[c] = @ + 1]

\* void PushFront(const Type& value)
PushFront(m, c, v) ==
    LET a == NewNode(m, v, m.head[c])
    IN  IF a.thrown THEN a
        ELSE [a EXCEPT !.head[c] = a.ret, !.size[c] = @ + 1]

\* PopFront with --size_ outside the if
PopFront_AlwaysCounts(m, c) ==
    IF m.head[c] # NULL
    THEN LET temp == m.head[c]
             a == [m EXCEPT !.head[c] = m.next[temp]]
             b == DeleteNode(a, temp)
         IN  [b EXCEPT !.size[c] = @ - 1]
    ELSE [m EXCEPT !.size[c] = @ - 1]

\* PopFront that reports an empty list by an exception
PopFront_ThrowsOnEmpty(m, c) ==
    IF m.head[c] # NULL
    THEN LET temp == m.head[c]
             a == [m EXCEPT !.head[c] = m.next[temp]]
             b == DeleteNode(a, temp)
         IN  [b EXCEPT !.size[c] = @ - 1]
    ELSE [m EXCEPT !.thrown = TRUE]

\* void PopFront() noexcept
PopFront(m, c) ==
    IF m.head[c] # NULL
    THEN LET temp == m.head[c]
             a == [m EXCEPT !.head[c] = m.next[temp]]
             b == DeleteNode(a, temp)
         IN  [b EXCEPT !.size[c] = @ - 1]
    ELSE m

\* Clear that resets head_ and size_ and deletes nothing
Clear_Unlinks(m, c) == [m EXCEPT !.head[c] = NULL, !.size[c] = 0]

\* void Clear() noexcept: while (size_) PopFront();
RECURSIVE Clear(_, _)
Clear(m, c) == IF m.size[c] # 0 THEN Clear(PopFront(m, c), c) ELSE m

\* InsertAfter with new Node(value, nullptr) in the else branch
InsertAfter_DropTail(m, c, pos, v) ==
    IF pos = before_begin(c)
    THEN LET a == PushFront(m, c, v)
         IN  IF a.thrown THEN a ELSE [a EXCEPT !.ret = begin(a, c)]
    ELSE LET a == NewNode(m, v, NULL)
         IN  IF a.thrown THEN a
             ELSE LET newtmp == a.ret
                  IN  [a EXCEPT !.next[pos] = newtmp, !.size[c] = @ + 1,
                                !.ret = newtmp]

\* InsertAfter returning Iterator(pos.node_) in the before_begin() branch
InsertAfter_ReturnsPos(m, c, pos, v) ==
    IF pos = before_begin(c)
    THEN LET a == PushFront(m, c, v)
         IN  IF a.thrown THEN a ELSE [a EXCEPT !.ret = pos]
    ELSE LET a == NewNode(m, v, NextOf(m, pos))
         IN  IF a.thrown THEN a
             ELSE LET newtmp == a.ret
                  IN  [a EXCEPT !.next[pos] = newtmp, !.size[c] = @ + 1,
                                !.ret = newtmp]

\* InsertAfter without ++size_ in the else branch
InsertAfter_NoCount(m, c, pos, v) ==
    IF pos = before_begin(c)
    THEN LET a == PushFront(m, c, v)
         IN  IF a.thrown THEN a ELSE [a EXCEPT !.ret = begin(a, c)]
    ELSE LET a == NewNode(m, v, NextOf(m, pos))
         IN  IF a.thrown THEN a
             ELSE LET newtmp == a.ret
                  IN  [a EXCEPT !.next[pos] = newtmp, !.ret = newtmp]

\* Iterator InsertAfter(ConstIterator pos, const Type& value)
InsertAfter(m, c, pos, v) ==
    IF pos = before_begin(c)
    THEN LET a == PushFront(m, c, v)
         IN  IF a.thrown THEN a ELSE [a EXCEPT !.ret = begin(a, c)]
    ELSE LET a == NewNode(m, v, NextOf(m, pos))
         IN  IF a.thrown THEN a
             ELSE LET newtmp == a.ret
                  IN  [a EXCEPT !.next[pos] = newtmp, !.size[c] = @ + 1,
                                !.ret = newtmp]

\* EraseAfter without size_-- in the else branch
EraseAfter_NoCount(m, c, pos) ==
    IF pos = before_begin(c)
    THEN LET a == PopFront(m, c)
         IN  [a EXCEPT !.ret = begin(a, c)]
    ELSE LET new_next == m.next[m.next[pos]]
             a == DeleteNode(m, m.next[pos])
             b == [a EXCEPT !.next[pos] = new_next]
         IN  [b EXCEPT !.ret = b.next[pos]]

\* Iterator EraseAfter(ConstIterator pos) noexcept
EraseAfter(m, c, pos) ==
    IF pos = before_begin(c)
    THEN LET a == PopFront(m, c)
         IN  [a EXCEPT !.ret = begin(a, c)]
    ELSE LET new_next == m.next[m.next[pos]]
             a == DeleteNode(m, m.next[pos])
             b == [a EXCEPT !.next[pos] = new_next, !.size[c] = @ - 1]
         IN  [b EXCEPT !.ret = b.next[pos]]

\* swap that takes the chain and the count of other and leaves other empty
swap_Moves(m, c, other) ==
    LET a == [m EXCEPT !.head[c] = m.head[other], !.size[c] = m.size[other]]
    IN  [a EXCEPT !.head[other] = NULL, !.size[other] = 0]

\* void swap(SingleLinkedList& other) noexcept
swap(m, c, other) ==
    LET temp_pt == m.head[c]
        temp_size == m.size[c]
        a == [m EXCEPT !.head[c] = m.head[other]]
        b == [a EXCEPT !.size[c] = a.size[other]]
        d == [b EXCEPT !.size[other] = temp_size]
    IN  [d EXCEPT !.head[other] = temp_pt]

\* the range-based for of the copy constructor: for (auto it : src)
\* dst.PushFront(it); p is the iterator, advanced by operator++
RECURSIVE PushEach(_, _, _)
PushEach(m, dst, p) ==
    IF m.thrown \/ p = end THEN m
    ELSE PushEach(PushFront(m, dst, m.value[p]), dst, m.next[p])

\* a copy constructor that copies head_ and size_ (the implicit one)
CopyConstruct_Shallow(m, c, other) ==
    [m EXCEPT !.head[c] = m.head[other], !.size[c] = m.size[other]]

\* a copy constructor that swaps with tmp1, without the second pass
CopyConstruct_Reversed(m, c, other) ==
    LET a == PushEach(m, Tmp1, begin(m, other))
        d == IF a.thrown THEN a ELSE swap(a, c, Tmp1)
    IN  Clear(d, Tmp1)

\* SingleLinkedList(const SingleLinkedList& other), constructing object c.
\* The locals tmp1 and tmp are destroyed on every way out, tmp first.
CopyConstruct(m, c, other) ==
    LET a == PushEach(m, Tmp1, begin(m, other))
        b == PushEach(a, Tmp, begin(a, Tmp1))
        d == IF b.thrown THEN b ELSE swap(b, c, Tmp)
    IN  Clear(Clear(d, Tmp), Tmp1)

\* operator= that clears *this and then pushes the elements of a copy
Assign_ClearFirst(m, c, rhs) ==
    IF c # rhs
    THEN LET a == CopyConstruct(Clear(m, c), TmpRhs, rhs)
         IN  IF a.thrown THEN a
             ELSE Clear(swap(a, c, TmpRhs), TmpRhs)
    ELSE m

\* operator= without the test this != &rhs
Assign_NoSelfCheck(m, c, rhs) ==
    LET a == CopyConstruct(m, TmpRhs, rhs)
    IN  IF a.thrown THEN a
        ELSE Clear(swap(a, c, TmpRhs), TmpRhs)

\* SingleLinkedList& operator=(const SingleLinkedList& rhs)
Assign(m, c, rhs) ==
    IF c # rhs
    THEN LET a == CopyConstruct(m, TmpRhs, rhs)
         IN  IF a.thrown THEN a
             ELSE Clear(swap(a, c, TmpRhs), TmpRhs)
    ELSE m

\* SingleLinkedList(std::initializer_list<Type> values), constructing c:
\* for (auto it = values.end()-1; it >= values.begin(); --it) PushFront(*it);
RECURSIVE InitListConstruct(_, _, _, _)
InitListConstruct(m, c, values, it) ==
    IF m.thrown \/ ~(it >= 1) THEN m
    ELSE InitListConstruct(PushFront(m, c, values[it]), c, values, it - 1)

\* ~SingleLinkedList()
Destroy(m, c) == Clear(m, c)

\* template swap(lhs, rhs) noexcept
FreeSwap(m, lhs, rhs) == swap(m, lhs, rhs)

\* size_t GetSize() const noexcept
GetSize(c) == size_[c]
\* bool IsEmpty() const noexcept
IsEmpty(c) == size_[c] = 0

(* ----------------------- what a list holds ----------------------------- *)
\* the nodes met by an iterator advanced from p until it equals end()
\* (at most fuel of them)
RECURSIVE ChainFrom(_, _, _)
ChainFrom(next, p, fuel) ==
    IF p = NULL \/ fuel = 0 THEN <<>>
    ELSE <<p>> \o ChainFrom(next, next[p], fuel - 1)

\* the nodes of list object c, front to back
Chain(c) == ChainFrom(next_node, head_[c], MaxNodes + 1)
\* the values of list object c, front to back
Elems(c) == [i \in 1..Len(Chain(c)) |-> value[Chain(c)[i]]]
NodeSet(c) == {Chain(c)[i] : i \in 1..Len(Chain(c))}
\* allocated nodes that no live list reaches
Leaked == allocated \ UNION {NodeSet(c) : c \in alive}

\* ++it for an iterator it of the present state that refers to p
Advance(p) == NextOf(Mem(0), p)

\* a comparison that stops at the end of the first range
RECURSIVE RangeEqual_FirstRange(_, _)
RangeEqual_FirstRange(first1, first2) ==
    IF first1 # end /\ first2 # end
    THEN IF ~(value[first1] = value[first2]) THEN FALSE
         ELSE RangeEqual_FirstRange(next_node[first1], next_node[first2])
    ELSE first1 = end

\* bool operator==(lhs, rhs): std::equal over the two iterator ranges
RECURSIVE RangeEqual(_, _)
RangeEqual(first1, first2) ==
    IF first1 # end /\ first2 # end
    THEN IF ~(value[first1] = value[first2]) THEN FALSE
         ELSE RangeEqual(next_node[first1], next_node[first2])
    ELSE first1 = end /\ first2 = end
ListEq(lhs, rhs) == RangeEqual(head_[lhs], head_[rhs])

\* a comparison that says "less" as soon as the first range is exhausted
RECURSIVE LexCompare_FirstEnds(_, _)
LexCompare_FirstEnds(first1, first2) ==
    IF first1 # end /\ first2 # end
    THEN IF value[first1] < value[first2] THEN TRUE
         ELSE IF value[first2] < value[first1] THEN FALSE
         ELSE LexCompare_FirstEnds(next_node[first1], next_node[first2])
    ELSE first1 = end

\* std::lexicographical_compare(first1, end(), first2, end())
RECURSIVE LexCompare(_, _)
LexCompare(first1, first2) ==
    IF first1 # end /\ first2 # end
    THEN IF value[first1] < value[first2] THEN TRUE
         ELSE IF value[first2] < value[first1] THEN FALSE
         ELSE LexCompare(next_node[first1], next_node[first2])
    ELSE first1 = end /\ first2 # end

\* operator!=, operator<, operator<=, operator>, operator>=
NotEq(lhs, rhs) == ~ListEq(lhs, rhs)
Less(lhs, rhs) == LexCompare(head_[lhs], head_[rhs])
LessEq(lhs, rhs) == ~Less(rhs, lhs)
Greater(lhs, rhs) == Less(rhs, lhs)
GreaterEq(lhs, rhs) == ~Greater(lhs, rhs)

(* --------------------------- the calls --------------------------------- *)
\* which new-expression of a copy may fail
FailPoints == 0..MaxNodes

\* Node* node_ = nullptr of a default-constructed iterator
NoIter == [node |-> NULL, val |-> Garbage]

NoCall ==
    [op |-> "none", c |-> 0, other |-> 0, pos |-> NULL, arg |-> <<>>,
     thrown |-> FALSE, ret |-> NULL, released |-> <<>>, nalloc |-> 0,
     pre |-> [chain |-> <<>>, elems |-> <<>>, size |-> <<>>, alive |-> {},
              allocated |-> {}]]

\* The program never looks at the number behind a Node*: it only copies
\* pointers, follows them and compares them for equality.  Which free address
\* new returns is therefore immaterial, and every call is stored with the
\* addresses renamed to the representative numbering: the nodes of list 1
\* front to back, then those of list 2, ..., then the allocated nodes no list
\* reaches, then the free addresses.  The renaming is a permutation of Nodes
\* and is applied to every pointer of the state, the call record included.
RECURSIVE Reached(_, _)
Reached(m, c) ==
    IF c = 0 THEN <<>>
    ELSE Reached(m, c - 1) \o ChainFrom(m.next, m.head[c], MaxNodes + 1)

\* the addresses of set S in increasing order, from address n on
RECURSIVE Ascending(_, _)
Ascending(S, n) ==
    IF n > MaxNodes THEN <<>>
    ELSE (IF n \in S THEN <<n>> ELSE <<>>) \o Ascending(S, n + 1)

\* sequence s without the repetitions of s[i], i > 1
RECURSIVE Once(_, _)
Once(s, seen) ==
    IF s = <<>> THEN <<>>
    ELSE IF Head(s) \in seen THEN Once(Tail(s), seen)
    ELSE <<Head(s)>> \o Once(Tail(s), seen \cup {Head(s)})

Renaming(m) ==
    LET r == Once(Reached(m, NumLists), {})
        inr == {r[i] : i \in 1..Len(r)}
        ord == r \o Ascending(m.allocated \ inr, 1)
                 \o Ascending(Nodes \ (m.allocated \cup inr), 1)
    IN  [n \in Nodes |-> CHOOSE i \in Nodes : ord[i] = n]

\* a pointer under the renaming f
Ptr(f, p) == IF p \in Nodes THEN f[p] ELSE p
PtrSeq(f, s) == [i \in 1..Len(s) |-> Ptr(f, s[i])]

\* the state a call starts from, as the call record keeps it
Before(f) ==
    [chain |-> [c \in Lists |-> PtrSeq(f, Chain(c))],
     elems |-> [c \in Lists |-> Elems(c)],
     size |-> [c \in Lists |-> size_[c]], alive |-> alive,
     allocated |-> {f[n] : n \in allocated}]

Call(op, c, other, pos, arg, m, f) ==
    [op |-> op, c |-> c, other |-> other, pos |-> Ptr(f, pos), arg |-> arg,
     thrown |-> m.thrown, ret |-> Ptr(f, m.ret),
     released |-> PtrSeq(f, m.released), nalloc |-> m.nalloc,
     pre |-> Before(f)]

\* the memory after a call
Store(m, f) ==
    /\ head_' = [c \in Slots |-> Ptr(f, m.head[c])]
    /\ size_' = m.size
    /\ \E g \in {[n \in Nodes |-> CHOOSE k \in Nodes : f[k] = n]} :
        /\ value' = [n \in Nodes |-> m.value[g[n]]]
        /\ next_node' = [n \in Nodes |-> Ptr(f, m.next[g[n]])]
    /\ allocated' = {f[n] : n \in m.allocated}

\* a call returns (or throws): its outcome m0 becomes the state; the
\* iterator the caller keeps is not touched by any call
Return(op, c, other, pos, arg, m0) ==
    \E m \in {m0} : \E f \in {Renaming(m)} :
        /\ Store(m, f)
        /\ last' = Call(op, c, other, pos, arg, m, f)
        /\ iter' = [iter EXCEPT !.node = Ptr(f, @)]

Running == last.op # "crash"

Init ==
    /\ head_ = [c \in Slots |-> NULL]
    /\ size_ = [c \in Slots |-> 0]
    /\ value = [n \in Nodes |-> Garbage]
    /\ next_node = [n \in Nodes |-> NULL]
    /\ allocated = {}
    /\ alive = {}
    /\ last = NoCall
    /\ hist = <<>>
    /\ cap = MaxLen
    /\ iter = NoIter

\* SingleLinkedList() on a new object c
DoDefaultConstruct(c) ==
    /\ Running /\ c \notin alive
    /\ Return("SingleLinkedList()", c, 0, NULL, <<>>, Mem(0))
    /\ alive' = alive \cup {c}
    /\ UNCHANGED <<hist, cap>>

\* c.PushFront(v)
CallPushFront(c, v) ==
    /\ Running /\ c \in alive /\ size_[c] < cap
    /\ \E f \in 0..1 :
        Return("PushFront", c, 0, NULL, <<v>>, PushFront(Mem(f), c, v))
    /\ UNCHANGED <<alive, cap>>

DoPushFront(c, v) == CallPushFront(c, v) /\ UNCHANGED hist

\* c.PopFront()
CallPopFront(c) ==
    /\ Running /\ c \in alive
    /\ Return("PopFront", c, 0, NULL, <<>>, PopFront(Mem(0), c))
    /\ UNCHANGED <<alive, cap>>

DoPopFront(c) == CallPopFront(c) /\ UNCHANGED hist

\* c.Clear()
DoClear(c) ==
    /\ Running /\ c \in alive
    /\ Return("Clear", c, 0, NULL, <<>>, Clear(Mem(0), c))
    /\ UNCHANGED <<alive, hist, cap>>

\* c.InsertAfter(pos, v); pos is before_begin() or refers to an element of c
DoInsertAfter(c, pos, v) ==
    /\ Running /\ c \in alive
    /\ pos \in {before_begin(c)} \cup NodeSet(c)
    /\ size_[c] < cap
    /\ \E f \in 0..1 :
        Return("InsertAfter", c, 0, pos, <<v>>,
               InsertAfter(Mem(f), c, pos, v))
    /\ UNCHANGED <<alive, hist, cap>>

\* c.EraseAfter(pos); pos is before_begin(), or refers to an element of c
\* that has a successor
DoEraseAfter(c, pos) ==
    /\ Running /\ c \in alive
    /\ \/ pos = before_begin(c)
       \/ pos \in NodeSet(c) /\ next_node[pos] # NULL
    /\ Return("EraseAfter", c, 0, pos, <<>>, EraseAfter(Mem(0), c, pos))
    /\ UNCHANGED <<alive, hist, cap>>

\* c.swap(other)
DoSwap(c, other) ==
    /\ Running /\ c \in alive /\ other \in alive
    /\ Return("swap", c, other, NULL, <<>>, swap(Mem(0), c, other))
    /\ UNCHANGED <<alive, hist, cap>>

\* swap(lhs, rhs)
DoFreeSwap(lhs, rhs) ==
    /\ Running /\ lhs \in alive /\ rhs \in alive
    /\ Return("swap(,)", lhs, rhs, NULL, <<>>, FreeSwap(Mem(0), lhs, rhs))
    /\ UNCHANGED <<alive, hist, cap>>

\* SingleLinkedList c(other): the object exists only if no exception left
\* the constructor
DoCopyConstruct(c, other) ==
    /\ Running /\ c \notin alive /\ other \in alive
    /\ \E f \in FailPoints :
        \E m \in {CopyConstruct(Mem(f), c, other)} :
            /\ Return("SingleLinkedList(const&)", c, other, NULL, <<>>, m)
            /\ alive' = IF m.thrown THEN alive ELSE alive \cup {c}
    /\ UNCHANGED <<hist, cap>>

\* c = rhs
DoAssign(c, rhs) ==
    /\ Running /\ c \in alive /\ rhs \in alive
    /\ \E f \in FailPoints :
        Return("operator=", c, rhs, NULL, <<>>, Assign(Mem(f), c, rhs))
    /\ UNCHANGED <<alive, hist, cap>>

\* SingleLinkedList c(values) with at least one value.  When a PushFront
\* throws, the constructor is left by the exception: the destructor of c
\* does not run, so the nodes pushed so far stay allocated, and the storage
\* of c is given back (its head_ and size_ are no more: NULL and 0 here).
DoInitListConstruct(c, values) ==
    /\ Running /\ c \notin alive /\ Len(values) \in 1..cap
    /\ \E f \in 0..Len(values) :
        /\ f >= 2 => Cardinality(Leaked) + (f - 1) <= MaxLeaked
        /\ \E m \in {InitListConstruct(Mem(f), c, values, Len(values))} :
            /\ Return("SingleLinkedList(initializer_list)", c, 0, NULL,
                      values,
                      IF m.thrown
                      THEN [m EXCEPT !.head[c] = NULL, !.size[c] = 0] ELSE m)
            /\ alive' = IF m.thrown THEN alive ELSE alive \cup {c}
    /\ UNCHANGED <<hist, cap>>

\* SingleLinkedList c(values) with no value: values.end()-1 points before the
\* (empty) array, which is undefined.  Either the comparison it >= begin()
\* is false at once and the list is empty, or the loop reads through the
\* invalid pointer and the program is stopped.
DoInitListConstructEmpty(c) ==
    /\ Running /\ c \notin alive
    /\ \/ /\ Return("SingleLinkedList(initializer_list)", c, 0, NULL, <<>>,
                     Mem(0))
          /\ alive' = alive \cup {c}
       \/ /\ Return("crash", c, 0, NULL, <<>>, Mem(0))
          /\ alive' = alive
    /\ UNCHANGED <<hist, cap>>

\* the lifetime of c ends
DoDestroy(c) ==
    /\ Running /\ c \in alive
    /\ Return("~SingleLinkedList", c, 0, NULL, <<>>, Destroy(Mem(0), c))
    /\ alive' = alive \ {c}
    /\ UNCHANGED <<hist, cap>>

\* *it = v, for the iterator it that refers to element pos of c
\* (operator* at line 101 returns node_->value by reference)
WriteThrough(m, pos, v) == [m EXCEPT !.value[pos] = v]

DoWrite(c, pos, v) ==
    /\ Running /\ c \in alive /\ pos \in NodeSet(c)
    /\ Return("*it=", c, 0, pos, <<v>>, WriteThrough(Mem(0), pos, v))
    /\ UNCHANGED <<alive, hist, cap>>

InitLists == UNION {[1..n -> Values] : n \in 1..MaxLenOne}

Next ==
    \/ \E c \in Lists : DoDefaultConstruct(c)
    \/ \E c \in Lists, v \in Values : DoPushFront(c, v)
    \/ \E c \in Lists : DoPopFront(c)
    \/ \E c \in Lists : DoClear(c)
    \/ \E c \in Lists, pos \in Nodes \cup {HeadOf(d) : d \in Lists},
          v \in Values : DoInsertAfter(c, pos, v)
    \/ \E c \in Lists, pos \in Nodes \cup {HeadOf(d) : d \in Lists} :
          DoEraseAfter(c, pos)
    \/ \E c \in Lists, other \in Lists : DoSwap(c, other)
    \/ \E lhs \in Lists, rhs \in Lists : DoFreeSwap(lhs, rhs)
    \/ \E c \in Lists, other \in Lists : DoCopyConstruct(c, other)
    \/ \E c \in Lists, rhs \in Lists : DoAssign(c, rhs)
    \/ \E c \in Lists, values \in InitLists : DoInitListConstruct(c, values)
    \/ \E c \in Lists : DoInitListConstructEmpty(c)
    \/ \E c \in Lists : DoDestroy(c)
    \/ \E c \in Lists, pos \in Nodes, v \in Values : DoWrite(c, pos, v)

Spec == Init /\ [][Next]_vars

(* ------------------- a program with one list --------------------------- *)
\* SingleLinkedList<Type> list; followed by calls on it
InitOne ==
    /\ head_ = [c \in Slots |-> NULL]
    /\ size_ = [c \in Slots |-> 0]
    /\ value = [n \in Nodes |-> Garbage]
    /\ next_node = [n \in Nodes |-> NULL]
    /\ allocated = {}
    /\ alive = {1}
    /\ last = NoCall
    /\ hist = <<>>
    /\ cap = MaxLenOne
    /\ iter = NoIter

NextOne ==
    \/ \E v \in Values : DoPushFront(1, v)
    \/ DoPopFront(1)
    \/ DoClear(1)
    \/ \E pos \in Nodes \cup {HeadOf(1)}, v \in Values : DoInsertAfter(1, pos, v)
    \/ \E pos \in Nodes \cup {HeadOf(1)} : DoEraseAfter(1, pos)
    \/ \E pos \in Nodes, v \in Values : DoWrite(1, pos, v)

SpecOne == InitOne /\ [][NextOne]_vars

(* ------------- a program that only pushes and pops --------------------- *)
\* SingleLinkedList<Type> list; followed by at most MaxCalls calls of
\* PushFront and PopFront, each noted in hist: the operation, its argument,
\* whether it threw, and whether the list was empty when it was called
InitPushPop ==
    /\ head_ = [c \in Slots |-> NULL]
    /\ size_ = [c \in Slots |-> 0]
    /\ value = [n \in Nodes |-> Garbage]
    /\ next_node = [n \in Nodes |-> NULL]
    /\ allocated = {}
    /\ alive = {1}
    /\ last = NoCall
    /\ hist = <<>>
    /\ cap = MaxCalls
    /\ iter = NoIter

Noted == [op |-> last'.op, arg |-> last'.arg, thrown |-> last'.thrown,
          empty |-> IsEmpty(1)]

PushPopPush(v) ==
    /\ Len(hist) < MaxCalls
    /\ CallPushFront(1, v)
    /\ hist' = Append(hist, Noted)

PushPopPop ==
    /\ Len(hist) < MaxCalls
    /\ CallPopFront(1)
    /\ hist' = Append(hist, Noted)

NextPushPop ==
    \/ \E v \in Values : PushPopPush(v)
    \/ PushPopPop

SpecPushPop == InitPushPop /\ [][NextPushPop]_vars

(* --------------- a program that builds and compares -------------------- *)
\* SingleLinkedList<Type> a, b; followed by calls of PushFront on either and
\* by comparisons of each with each
InitCompare ==
    /\ head_ = [c \in Slots |-> NULL]
    /\ size_ = [c \in Slots |-> 0]
    /\ value = [n \in Nodes |-> Garbage]
    /\ next_node = [n \in Nodes |-> NULL]
    /\ allocated = {}
    /\ alive = {1, 2}
    /\ last = NoCall
    /\ hist = <<>>
    /\ cap = MaxLenOne
    /\ iter = NoIter

\* lhs == rhs, lhs != rhs, lhs < rhs, lhs <= rhs, lhs > rhs, lhs >= rhs:
\* the six answers are kept in the call record
DoCompare(lhs, rhs) ==
    /\ Running /\ lhs \in alive /\ rhs \in alive
    /\ last' = [NoCall EXCEPT !.op = "compare", !.c = lhs, !.other = rhs,
                              !.arg = [eq |-> ListEq(lhs, rhs),
                                       ne |-> NotEq(lhs, rhs),
                                       lt |-> Less(lhs, rhs),
                                       le |-> LessEq(lhs, rhs),
                                       gt |-> Greater(lhs, rhs),
                                       ge |-> GreaterEq(lhs, rhs)]]
    /\ UNCHANGED <<head_, size_, value, next_node, allocated, alive, hist,
                   cap, iter>>

NextCompare ==
    \/ \E c \in {1, 2}, v \in Values : DoPushFront(c, v)
    \/ \E lhs \in {1, 2}, rhs \in {1, 2} : DoCompare(lhs, rhs)

SpecCompare == InitCompare /\ [][NextCompare]_vars

(* ---------------- a program that keeps an iterator --------------------- *)
\* SingleLinkedList<Type> a, b; the caller obtains an iterator it from
\* begin() or before_begin(), advances it, and goes on changing the lists.
\* The caller does not keep an iterator to a node it removes: PopFront and
\* EraseAfter are called only when it does not refer to the node they remove.
InitIter ==
    /\ head_ = [c \in Slots |-> NULL]
    /\ size_ = [c \in Slots |-> 0]
    /\ value = [n \in Nodes |-> Garbage]
    /\ next_node = [n \in Nodes |-> NULL]
    /\ allocated = {}
    /\ alive = {1, 2}
    /\ last = NoCall
    /\ hist = <<>>
    /\ cap = MaxLen
    /\ iter = NoIter

\* the iterator Iterator(p), with the value *it reads unless p is the
\* sentinel or null
IterAt(p) == [node |-> p, val |-> IF p \in Nodes THEN value[p] ELSE Garbage]

\* it = c.begin()
TakeBegin(c) ==
    /\ Running /\ c \in alive
    /\ iter' = IterAt(begin(Mem(0), c))
    /\ last' = [NoCall EXCEPT !.op = "begin", !.c = c]
    /\ UNCHANGED <<head_, size_, value, next_node, allocated, alive, hist,
                   cap>>

\* it = c.before_begin()
TakeBeforeBegin(c) ==
    /\ Running /\ c \in alive
    /\ iter' = IterAt(before_begin(c))
    /\ last' = [NoCall EXCEPT !.op = "before_begin", !.c = c]
    /\ UNCHANGED <<head_, size_, value, next_node, allocated, alive, hist,
                   cap>>

\* ++it, for an iterator that is not end()
DoIncrement ==
    /\ Running /\ iter.node # end
    /\ iter' = IterAt(Advance(iter.node))
    /\ last' = [NoCall EXCEPT !.op = "++", !.pos = iter.node]
    /\ UNCHANGED <<head_, size_, value, next_node, allocated, alive, hist,
                   cap>>

IterPopFront(c) ==
    /\ iter.node = end \/ iter.node # begin(Mem(0), c)
    /\ DoPopFront(c)

IterEraseAfter(c, pos) ==
    /\ iter.node = end \/ iter.node # Advance(pos)
    /\ DoEraseAfter(c, pos)

NextIter ==
    \/ \E c \in {1, 2} : TakeBegin(c)
    \/ \E c \in {1, 2} : TakeBeforeBegin(c)
    \/ DoIncrement
    \/ \E c \in {1, 2}, v \in Values : DoPushFront(c, v)
    \/ \E c \in {1, 2} : IterPopFront(c)
    \/ \E c \in {1, 2} : \E pos \in Nodes \cup {HeadOf(c)}, v \in Values :
            DoInsertAfter(c, pos, v)
    \/ \E c \in {1, 2} : \E pos \in Nodes \cup {HeadOf(c)} :
            IterEraseAfter(c, pos)
    \/ \E c \in {1, 2}, other \in {1, 2} : DoSwap(c, other)

SpecIter == InitIter /\ [][NextIter]_vars

(* ============================ the claims =============================== *)
Pre == last.pre
Threw == last.thrown
\* sequence s with x put after its first i elements
InsertAt(s, i, x) == SubSeq(s, 1, i) \o <<x>> \o SubSeq(s, i + 1, Len(s))
\* sequence s without its i-th element
RemoveAt(s, i) == SubSeq(s, 1, i - 1) \o SubSeq(s, i + 1, Len(s))
\* the place of node n in the sequence of nodes s
IndexOf(s, n) == CHOOSE i \in 1..Len(s) : s[i] = n
\* how often node n occurs in s
Count(s, n) == Cardinality({i \in 1..Len(s) : s[i] = n})

\* C1: on every live list, GetSize() is the number of value nodes reachable
\* from the sentinel by next_node links, and IsEmpty() holds exactly when
\* that number is 0.
C1_SizeIsChainLength ==
    \A c \in alive :
        /\ GetSize(c) = Len(Chain(c))
        /\ IsEmpty(c) <=> Len(Chain(c)) = 0

\* both lists hold elements, of different numbers, after a copy assignment
C1_Witness ==
    /\ last.op = "operator=" /\ ~Threw /\ alive = Lists
    /\ Len(Chain(1)) = 1 /\ Len(Chain(2)) = 1
    /\ Pre.size[last.c] = 2

\* C2: no node is reachable from the sentinels of two different live lists.
C2_NoSharedNode ==
    \A c \in alive : \A d \in alive \ {c} : NodeSet(c) \cap NodeSet(d) = {}

\* a copy constructor has just made a second list of two elements
C2_Witness ==
    /\ last.op = "SingleLinkedList(const&)" /\ ~Threw
    /\ {last.c, last.other} \subseteq alive
    /\ Len(Chain(last.c)) = 2 /\ Len(Chain(last.other)) = 2

\* C3: when node allocation fails inside PushFront, InsertAfter or copy
\* assignment, the call throws and every list (the target, and the right-hand
\* side of the assignment) keeps the nodes, the element sequence and the
\* count it had before the call.
C3_FailedCallChangesNothing ==
    (last.op \in {"PushFront", "InsertAfter", "operator="} /\ Threw) =>
        \A c \in Lists :
            /\ Elems(c) = Pre.elems[c]
            /\ Chain(c) = Pre.chain[c]
            /\ size_[c] = Pre.size[c]

\* a copy assignment onto a non-empty list failed after it had allocated
C3_Witness ==
    /\ last.op = "operator=" /\ Threw /\ last.nalloc >= 2
    /\ Len(Elems(last.c)) >= 1 /\ Len(Elems(last.other)) = 2
    /\ Elems(last.c) # Elems(last.other)

Mutating == {"PushFront", "PopFront", "InsertAfter", "EraseAfter", "Clear",
             "*it="}

\* C4: a copy-constructed list holds the values of its source in the same
\* order (copy == source, also for the empty source) and the source is as it
\* was; and a mutation of one list (PushFront, PopFront, InsertAfter,
\* EraseAfter, Clear, a write through an iterator) leaves the sequence and
\* the count of every other list as they were.
C4_CopyIsEqualAndIndependent ==
    /\ (last.op = "SingleLinkedList(const&)" /\ ~Threw) =>
          /\ Elems(last.c) = Elems(last.other)
          /\ ListEq(last.c, last.other)
          /\ size_[last.c] = size_[last.other]
          /\ Elems(last.other) = Pre.elems[last.other]
          /\ size_[last.other] = Pre.size[last.other]
    /\ last.op \in Mutating =>
          \A d \in Lists \ {last.c} :
              Elems(d) = Pre.elems[d] /\ size_[d] = Pre.size[d]

\* the list <<1, 2>> has just been copied
C4_Witness ==
    /\ last.op = "SingleLinkedList(const&)" /\ ~Threw
    /\ Elems(last.other) = <<1, 2>>
    /\ last.c \in alive

\* C5: InsertAfter(pos, v) with pos at an element puts v right after that
\* element, keeps every other node and value in order, adds 1 to the count,
\* and returns an iterator to the new node: pos advanced once, holding v.
C5_InsertAfterElement ==
    (last.op = "InsertAfter" /\ ~Threw /\ last.pos \in Nodes) =>
        LET c == last.c
            i == IndexOf(Pre.chain[c], last.pos)
        IN  /\ Elems(c) = InsertAt(Pre.elems[c], i, last.arg[1])
            /\ Chain(c) = InsertAt(Pre.chain[c], i, last.ret)
            /\ size_[c] = Pre.size[c] + 1
            /\ last.ret \notin Pre.allocated
            /\ last.ret = next_node[last.pos]
            /\ value[last.ret] = last.arg[1]

\* 1 was inserted between the elements of <<1, 2>>
C5_Witness ==
    /\ last.op = "InsertAfter" /\ ~Threw /\ last.pos \in Nodes
    /\ Pre.elems[1] = <<1, 2>> /\ Elems(1) = <<1, 1, 2>>
    /\ last.pos = Chain(1)[1]

\* C6: EraseAfter(pos) with pos at an element that has a successor removes
\* exactly that successor, keeps every other node and value in order, takes 1
\* from the count, and returns an iterator to the node now following pos,
\* end() when the last element was erased.
C6_EraseAfterElement ==
    (last.op = "EraseAfter" /\ last.pos \in Nodes) =>
        LET c == last.c
            i == IndexOf(Pre.chain[c], last.pos)
        IN  /\ Elems(c) = RemoveAt(Pre.elems[c], i + 1)
            /\ Chain(c) = RemoveAt(Pre.chain[c], i + 1)
            /\ size_[c] = Pre.size[c] - 1
            /\ last.released = <<Pre.chain[c][i + 1]>>
            /\ last.ret = next_node[last.pos]
            /\ i + 1 = Len(Pre.chain[c]) <=> last.ret = end
            /\ ~Threw

\* the middle element of <<1, 2, 1>> was erased
C6_Witness ==
    /\ last.op = "EraseAfter" /\ last.pos \in Nodes
    /\ Pre.elems[1] = <<1, 2, 1>> /\ Elems(1) = <<1, 1>>

\* what a caller can see of the outcome m of a call on list c: whether it
\* threw, the nodes and values of the list, its count, the nodes released, and
\* whether the returned iterator equals begin()
Seen(m, c) ==
    LET ch == ChainFrom(m.next, m.head[c], MaxNodes + 1)
    IN  [thrown |-> m.thrown, chain |-> ch,
         elems |-> [i \in 1..Len(ch) |-> m.value[ch[i]]],
         size |-> m.size[c], released |-> m.released]

\* C7: in every state, for every value v, InsertAfter(before_begin(), v)
\* leaves the sequence and the count that PushFront(v) leaves and returns
\* begin(); and EraseAfter(before_begin()) leaves the sequence and the count
\* that PopFront() leaves, on the empty list too, and returns the new begin().
C7_BeforeBeginIsFront ==
    \A c \in alive :
        /\ \A v \in Values : \A f \in 0..1 :
              LET a == InsertAfter(Mem(f), c, before_begin(c), v)
                  b == PushFront(Mem(f), c, v)
              IN  /\ Seen(a, c) = Seen(b, c)
                  /\ ~a.thrown => a.ret = begin(a, c) /\ a.value[a.ret] = v
        /\ LET a == EraseAfter(Mem(0), c, before_begin(c))
               b == PopFront(Mem(0), c)
           IN  /\ Seen(a, c) = Seen(b, c)
               /\ a.ret = begin(a, c)
               /\ Len(Chain(c)) >= 2 => a.ret = Chain(c)[2]
               /\ Len(Chain(c)) <= 1 => a.ret = end

\* InsertAfter(before_begin(), 2) was called on <<1, 2>>, and
\* EraseAfter(before_begin()) can be called on the empty list
C7_Witness ==
    /\ last.op = "InsertAfter" /\ ~Threw /\ last.pos = before_begin(1)
    /\ Pre.elems[1] = <<1, 2>> /\ Elems(1) = <<2, 1, 2>>
    /\ last.ret = begin(Mem(0), 1)

\* the calls of hist that are PushFront calls which returned
Pushed == SelectSeq(hist, LAMBDA h : h.op = "PushFront" /\ ~h.thrown)
\* the number of PopFront calls, and of those made on a non-empty list
Pops == Len(SelectSeq(hist, LAMBDA h : h.op = "PopFront"))
PopsOfAnElement ==
    Len(SelectSeq(hist, LAMBDA h : h.op = "PopFront" /\ ~h.empty))
Reverse(s) == [i \in 1..Len(s) |-> s[Len(s) + 1 - i]]

\* C8 as stated: starting from an empty list, GetSize() is the number of
\* PushFront calls (that returned) minus the number of PopFront calls.
C8_SizeIsPushesMinusPops == GetSize(1) = Len(Pushed) - Pops

\* C8, amended: starting from an empty list, GetSize() is the number of
\* PushFront calls that returned minus the number of PopFront calls made on a
\* non-empty list (PopFront on an empty list changes nothing).
C8_SizeIsPushesMinusEffectivePops == GetSize(1) = Len(Pushed) - PopsOfAnElement

\* PopFront was called on the empty list, and on a non-empty one, and two
\* elements are in the list
C8_Witness ==
    /\ \E i \in 1..Len(hist) : hist[i].op = "PopFront" /\ hist[i].empty
    /\ \E i \in 1..Len(hist) : hist[i].op = "PopFront" /\ ~hist[i].empty
    /\ GetSize(1) = 2

\* C9: starting from an empty list, after PushFront calls only, iterating from
\* begin() to end() yields the pushed values in the reverse order of the
\* calls; and a PushFront that returns puts its value in front of the nodes
\* and values that were there, which it leaves as they were.
C9_PushFrontReverses ==
    /\ (\A i \in 1..Len(hist) : hist[i].op = "PushFront") =>
          Elems(1) = Reverse([i \in 1..Len(Pushed) |-> Pushed[i].arg[1]])
    /\ (last.op = "PushFront" /\ ~Threw) =>
          /\ Elems(1) = <<last.arg[1]>> \o Pre.elems[1]
          /\ Tail(Chain(1)) = Pre.chain[1]

\* PushFront(1), PushFront(2), PushFront(2) were called, nothing else
C9_Witness ==
    /\ Len(hist) = 3 /\ Len(Pushed) = 3
    /\ [i \in 1..3 |-> hist[i].arg[1]] = <<1, 2, 2>>
    /\ Elems(1) = <<2, 2, 1>>

\* C10: x = y leaves x with the sequence and count of y and leaves y as it
\* was, and every node x had is released exactly once; x = x leaves the nodes,
\* the sequence and the count of x as they were and releases nothing.
C10_CopyAssignment ==
    (last.op = "operator=" /\ ~Threw) =>
        LET x == last.c
            y == last.other
        IN  IF x # y
            THEN /\ Elems(x) = Pre.elems[y]
                 /\ size_[x] = Pre.size[y]
                 /\ Elems(y) = Pre.elems[y]
                 /\ Chain(y) = Pre.chain[y]
                 /\ size_[y] = Pre.size[y]
                 /\ \A i \in 1..Len(Pre.chain[x]) :
                       /\ Count(last.released, Pre.chain[x][i]) = 1
                       /\ Pre.chain[x][i] \notin NodeSet(x) \cup NodeSet(y)
            ELSE /\ Elems(x) = Pre.elems[x]
                 /\ Chain(x) = Pre.chain[x]
                 /\ size_[x] = Pre.size[x]
                 /\ last.released = <<>>

\* <<2>> was assigned to a list that held two elements
C10_Witness ==
    /\ last.op = "operator=" /\ ~Threw /\ last.c # last.other
    /\ Pre.size[last.c] = 2 /\ Elems(last.c) = <<2>>
    /\ Pre.elems[last.c] # <<2, 2>>

\* C11: a.swap(b) and swap(a, b) exchange the nodes, the element sequences and
\* the counts of a and b, allocate and release no node and do not throw;
\* a.swap(a) leaves a as it was; and in every state swapping two lists twice
\* gives back the heads and counts the state has.
C11_SwapExchanges ==
    /\ last.op \in {"swap", "swap(,)"} =>
          LET a == last.c
              b == last.other
          IN  /\ Chain(a) = Pre.chain[b] /\ Chain(b) = Pre.chain[a]
              /\ Elems(a) = Pre.elems[b] /\ Elems(b) = Pre.elems[a]
              /\ size_[a] = Pre.size[b] /\ size_[b] = Pre.size[a]
              /\ allocated = Pre.allocated
              /\ last.nalloc = 0 /\ last.released = <<>> /\ ~Threw
              /\ \A d \in Lists \ {a, b} :
                    Chain(d) = Pre.chain[d] /\ size_[d] = Pre.size[d]
    /\ \A a \in alive : \A b \in alive :
          LET once == swap(Mem(0), a, b)
              twice == swap(once, a, b)
              free == FreeSwap(FreeSwap(Mem(0), a, b), a, b)
          IN  /\ twice.head = head_ /\ twice.size = size_
              /\ free.head = head_ /\ free.size = size_
              /\ a = b => once.head = head_ /\ once.size = size_

\* <<1, 2>> and <<2>> have just been exchanged by the member swap
C11_Witness ==
    /\ last.op = "swap" /\ last.c # last.other
    /\ Pre.elems[last.c] = <<1, 2>> /\ Pre.elems[last.other] = <<2>>
    /\ Elems(last.c) = <<2>> /\ Elems(last.other) = <<1, 2>>

\* the answers of the comparison operators for the pair last compared
Compared == last.op = "compare"
Ans == last.arg
\* s is a prefix of t, and is shorter
StrictPrefix(s, t) == Len(s) < Len(t) /\ SubSeq(t, 1, Len(s)) = s
\* s and t agree before position i and differ at it
FirstDiff(s, t, i) ==
    /\ i <= Len(s) /\ i <= Len(t)
    /\ SubSeq(s, 1, i - 1) = SubSeq(t, 1, i - 1)
    /\ s[i] # t[i]

\* C12: for the lists A and B last compared, A > B iff B < A; A <= B iff
\* A < B or A == B; A >= B iff A > B or A == B; A != B iff not A == B; and
\* exactly one of A < B, A == B, A > B holds.
C12_DerivedComparisons ==
    Compared =>
        /\ Ans.gt <=> Less(last.other, last.c)
        /\ Ans.le <=> (Ans.lt \/ Ans.eq)
        /\ Ans.ge <=> (Ans.gt \/ Ans.eq)
        /\ Ans.ne <=> ~Ans.eq
        /\ Ans.eq => ~Ans.lt /\ ~Ans.gt
        /\ Cardinality({k \in {"lt", "eq", "gt"} : Ans[k]}) = 1

\* C13: for the lists A and B last compared, A < B iff A is a strict prefix
\* of B or A's element is the smaller one at the first position where the
\* two differ; A < B is false when B is a prefix of A or equal to it.
C13_LessIsLexicographic ==
    Compared =>
        LET A == Elems(last.c)
            B == Elems(last.other)
        IN  /\ Ans.lt <=> \/ StrictPrefix(A, B)
                          \/ \E i \in 1..Len(A) :
                                FirstDiff(A, B, i) /\ A[i] < B[i]
            /\ (StrictPrefix(B, A) \/ A = B) => ~Ans.lt

\* <<1, 2>> < <<1, 2, 1>> by prefix, or <<1, 1, 2>> < <<1, 2>> by the second
\* element, was the last comparison
C13_Witness ==
    /\ Compared /\ Ans.lt
    /\ \/ Elems(last.c) = <<1, 2>> /\ Elems(last.other) = <<1, 2, 1>>
       \/ Elems(last.c) = <<1, 1, 2>> /\ Elems(last.other) = <<1, 2>>

\* C14: for the lists A and B last compared, A == B iff GetSize() is the
\* same for both and the elements agree at every position; two empty lists
\* are equal and a list is not equal to a strict prefix of itself.
C14_EqualIsSizeAndElements ==
    Compared =>
        LET A == Elems(last.c)
            B == Elems(last.other)
        IN  /\ Ans.eq <=> /\ GetSize(last.c) = GetSize(last.other)
                          /\ \A i \in 1..GetSize(last.c) : A[i] = B[i]
            /\ (A = <<>> /\ B = <<>>) => Ans.eq
            /\ (StrictPrefix(A, B) \/ StrictPrefix(B, A)) => ~Ans.eq

\* <<2, 1>> was compared with its strict prefix <<2>>
C14_Witness ==
    /\ Compared /\ last.c # last.other /\ ~Ans.eq
    /\ Elems(last.c) = <<2, 1>> /\ Elems(last.other) = <<2>>

\* C15: PopFront() and Clear() on an empty list do not throw and leave it
\* empty, with count 0 and begin() == end(); PopFront() on a non-empty list
\* removes the first element and no other, keeps the rest in order and
\* lowers the count by 1.
C15_PopFrontAndClearOnEmpty ==
    /\ (last.op \in {"PopFront", "Clear"} /\ Pre.elems[last.c] = <<>>) =>
          /\ ~Threw
          /\ Elems(last.c) = <<>>
          /\ GetSize(last.c) = 0 /\ IsEmpty(last.c)
          /\ begin(Mem(0), last.c) = end
          /\ last.released = <<>> /\ allocated = Pre.allocated
    /\ (last.op = "PopFront" /\ Pre.elems[last.c] # <<>>) =>
          /\ ~Threw
          /\ Elems(last.c) = Tail(Pre.elems[last.c])
          /\ Chain(last.c) = Tail(Pre.chain[last.c])
          /\ GetSize(last.c) = Pre.size[last.c] - 1
          /\ last.released = <<Head(Pre.chain[last.c])>>
          /\ allocated = Pre.allocated \ {Head(Pre.chain[last.c])}

\* PopFront() has just been called on a list without elements
C15_Witness ==
    /\ last.op = "PopFront" /\ Pre.elems[last.c] = <<>> /\ Pre.size[last.c] = 0
    /\ IsEmpty(last.c)

\* C16: when the constructor from an initializer list has been called with
\* the values v1, ..., vn, n >= 0, and no allocation failed, the list exists,
\* its elements front to back are v1, ..., vn and GetSize() is n.  (The call
\* record of op "crash" is that of a call with no values.)
C16_InitListKeepsOrder ==
    (last.op \in {"SingleLinkedList(initializer_list)", "crash"} /\ ~Threw) =>
        /\ last.c \in alive
        /\ Elems(last.c) = last.arg
        /\ GetSize(last.c) = Len(last.arg)

\* the nodes an iterator refers to while it is advanced n times from p, or
\* until it equals end()
RECURSIVE Visited(_, _)
Visited(p, n) ==
    IF n = 0 \/ p = end THEN <<>> ELSE <<p>> \o Visited(Advance(p), n - 1)
\* the iterator that started at p, after these advances
RECURSIVE AdvancedBy(_, _)
AdvancedBy(p, n) ==
    IF n = 0 \/ p = end THEN p ELSE AdvancedBy(Advance(p), n - 1)

\* C17: in every state and for every list, begin() refers to the first
\* element, or equals end() when the list is empty; before_begin() advanced
\* once equals begin(); and an iterator advanced from begin() equals end()
\* after exactly GetSize() advances and not earlier, having referred to every
\* node of the list once and to no node twice.
C17_IteratorsWellFormed ==
    \A c \in alive :
        LET first == begin(Mem(0), c)
            seen == Visited(first, GetSize(c))
        IN  /\ IsEmpty(c) <=> first = end
            /\ ~IsEmpty(c) => first \in allocated /\ value[first] = Elems(c)[1]
            /\ Advance(before_begin(c)) = first
            /\ Len(seen) = GetSize(c)
            /\ AdvancedBy(first, GetSize(c)) = end
            /\ \A i \in 1..Len(seen) : \A j \in 1..Len(seen) :
                  seen[i] = seen[j] => i = j
            /\ {seen[i] : i \in 1..Len(seen)} = NodeSet(c)
            /\ \A i \in 1..Len(seen) :
                  seen[i] \in allocated /\ value[seen[i]] = Elems(c)[i]

\* a list of two elements next to an empty one, after an InsertAfter
C17_Witness ==
    /\ last.op = "InsertAfter" /\ ~Threw /\ last.pos \in Nodes
    /\ GetSize(last.c) = 2
    /\ \E d \in alive : IsEmpty(d) /\ begin(Mem(0), d) = end

\* the nodes of sequence s
Range(s) == {s[i] : i \in 1..Len(s)}

\* C18: Clear() and the destructor return, without an exception, from every
\* state; they leave count 0, the sentinel link null and begin() == end();
\* they release the nodes of the chain, each once, front to back, and no
\* other node; no other list is touched; and after Clear() a PushFront works
\* on the list as on a new one.
C18_ClearReleasesTheChain ==
    last.op \in {"Clear", "~SingleLinkedList"} =>
        LET c == last.c
        IN  /\ ~Threw
            /\ GetSize(c) = 0 /\ head_[c] = NULL
            /\ begin(Mem(0), c) = end /\ Elems(c) = <<>>
            /\ last.released = Pre.chain[c]
            /\ allocated = Pre.allocated \ Range(Pre.chain[c])
            /\ Cardinality(Range(last.released)) = Len(last.released)
            /\ last.nalloc = 0
            /\ \A d \in Lists \ {c} :
                  Chain(d) = Pre.chain[d] /\ Elems(d) = Pre.elems[d]
                  /\ size_[d] = Pre.size[d]
            /\ last.op = "Clear" =>
                  /\ c \in alive
                  /\ \A v \in Values :
                        LET a == PushFront(Mem(0), c, v)
                        IN  IF a.thrown THEN allocated = Nodes
                            ELSE /\ a.size[c] = 1 /\ a.head[c] \in Nodes
                                 /\ a.value[a.head[c]] = v
                                 /\ a.next[a.head[c]] = NULL
            /\ last.op = "~SingleLinkedList" => c \notin alive

\* Clear() has just released the two nodes of a list
C18_Witness ==
    /\ last.op = "Clear" /\ Len(Pre.chain[last.c]) = 2
    /\ last.released = Pre.chain[last.c] /\ IsEmpty(last.c)

\* C19: when an allocation fails during copy construction or during
\* construction from an initializer list, every node the construction had
\* allocated is released when the exception reaches the caller: the same
\* nodes are allocated as before the call; no object has come to exist; and
\* the source of a copy is as it was.
C19_FailedConstructionLeaksNothing ==
    (/\ last.op \in {"SingleLinkedList(const&)",
                     "SingleLinkedList(initializer_list)"}
     /\ Threw) =>
        /\ allocated = Pre.allocated
        /\ alive = Pre.alive
        /\ \A d \in Lists :
              Chain(d) = Pre.chain[d] /\ Elems(d) = Pre.elems[d]
              /\ size_[d] = Pre.size[d]

\* C20: an iterator the caller keeps, and that does not refer to a node
\* removed by PopFront or EraseAfter, stays valid through PushFront,
\* InsertAfter, PopFront, EraseAfter and swap: if it refers to a node, the
\* node is allocated, holds the value it held when the iterator was obtained
\* and is in the chain of a live list, so that advancing the iterator follows
\* that chain to end(); if it is before_begin() of a list, advancing it gives
\* begin() of that list.  A call other than swap leaves the node in the list
\* it was in; a.swap(b) leaves a node of a in b, at the same place.
C20_IteratorsStayValid ==
    /\ iter.node \in Nodes =>
          /\ iter.node \in allocated
          /\ value[iter.node] = iter.val
          /\ \E c \in alive : iter.node \in NodeSet(c)
          /\ AdvancedBy(iter.node, MaxNodes) = end
    /\ IsHead(iter.node) =>
          /\ (0 - iter.node) \in alive
          /\ Advance(iter.node) = begin(Mem(0), 0 - iter.node)
    /\ last.op \in {"PushFront", "InsertAfter", "PopFront", "EraseAfter"} =>
          \A d \in Lists :
              iter.node \in Range(Pre.chain[d]) => iter.node \in NodeSet(d)
    /\ (last.op = "swap" /\ last.c # last.other) =>
          (iter.node \in Range(Pre.chain[last.c]) =>
              /\ iter.node \in NodeSet(last.other)
              /\ IndexOf(Chain(last.other), iter.node)
                    = IndexOf(Pre.chain[last.c], iter.node)
              /\ value[iter.node] = iter.val)

\* the iterator refers to the second element of a list whose first element
\* has just been removed, or to an element of a list just swapped
C20_Witness ==
    /\ iter.node \in Nodes
    /\ \/ /\ last.op = "PopFront" /\ Len(Pre.chain[last.c]) = 2
          /\ iter.node = Pre.chain[last.c][2]
       \/ /\ last.op = "swap" /\ last.c # last.other
          /\ iter.node \in Range(Pre.chain[last.c])

====
